---- MODULE Spec2Model ----
(***************************************************************************)
(* Model of gns3server/modules/vpcs/vpcs_device.py: the vpcsDevice class.  *)
(* The class-level list _instances holds the allocated identifiers; every  *)
(* vpcsDevice object is a slot of dev.  The operating system (file system, *)
(* TCP connects, process table) is the environment: its answers are the    *)
(* inputs the actions draw with \E.                                        *)
(***************************************************************************)
EXTENDS Integers, Sequences, FiniteSets, TLC

\* ---------------------------------------------------------------- bounds
\* Number of vpcsDevice objects that are ever successfully constructed, in
\* the allocation runs (SpecAlloc) and in the life-cycle runs (Spec).
MaxDev == 3
MaxLifeDev == 1
\* Stand-in for the last identifier of range(1, 256): the pool is 1..MaxId.
MaxId == 2
\* Number of subprocess.Popen() spawns that succeed in one behaviour.
MaxSpawn == 2

Dev == 1..MaxDev
LifeDev == 1..MaxLifeDev
\* Number of threads that run __init__ concurrently (SpecConc).
MaxThreads == 2
Thr == 1..MaxThreads
Ids == 1..MaxId

\* ------------------------------------------------------- values and inputs
\* self._console = None
NoConsole == 0
\* self._process = None
NoProcess == [pid |-> 0, args |-> <<>>]
\* self._id = 0 : no identifier found
NoId == 0

\* console ports the caller sets
Consoles == {2000}
\* the path argument of the constructor
VpcsPath == "/bin/vpcs"
\* the working_dir argument of the constructor
BaseDir == "/tmp"
\* name=None, the default of the constructor: any falsy name takes the
\* branch of the default name
NoName == ""
\* the names the caller passes to the constructor and to the name setter
Names == {NoName, "mypc"}
\* the paths the caller sets with the path setter
Paths == {VpcsPath, "/usr/local/bin/other-vpcs"}
\* the directories the caller sets with the working_dir setter
WorkingDirs == {BaseDir, "/elsewhere"}
\* what os.path.isfile / os.access answer for the path
FileStates == {"missing", "noexec", "ok"}
\* what socket.connect/send answer in stop()
SignalOutcomes == {"sent", "OSError"}

\* the script files the caller sets
ScriptFiles == {"", "start.vpc"}
\* the NIOs the caller binds: a NIO_UDP and a NIO_TAP
NioUdp == [type |-> "udp", lport |-> 20001, rport |-> 30001, rhost |-> "127.0.0.1"]
NioTap == [type |-> "tap", tap_device |-> "tap0"]
Nios == {NioUdp, NioTap}
\* the slot and port numbers the caller passes
SlotIds == {-2, -1, 0, 1}
PortIds == {0, 1}

VARIABLES instances, dev, procs, nspawn, resets, last, out, ctor
vars == <<instances, dev, procs, nspawn, resets, last, out, ctor>>

\* ------------------------------------------------------------ pure helpers
\* str(x) of an integer
Str(n) == ToString(n)

\* str(self._console): the console is None until the setter runs
StrConsole(c) == IF c = NoConsole THEN "None" ELSE Str(c)

\* "identifier in self._instances" on the list
InList(x, list) == \E i \in 1..Len(list) : list[i] = x

\* the set of the elements of the list
Allocated(list) == {list[i] : i \in 1..Len(list)}

\* list.remove(x): drops the first occurrence (the caller checks InList)
RECURSIVE ListRemove(_, _)
ListRemove(list, x) ==
    IF list = <<>> THEN <<>>
    ELSE IF Head(list) = x THEN Tail(list)
    ELSE <<Head(list)>> \o ListRemove(Tail(list), x)

\* for identifier in range(1, 256): if identifier not in self._instances
\* the first identifier not in the list, or 0 when the loop finds none
RECURSIVE ScanFrom(_, _)
ScanFrom(k, list) ==
    IF k > MaxId THEN NoId
    ELSE IF ~InList(k, list) THEN k
    ELSE ScanFrom(k + 1, list)

\* the scan stopping one identifier early: range(1, 255)
FindIdShort(list) ==
    LET k == ScanFrom(1, list) IN IF k = MaxId THEN NoId ELSE k

\* the scan keeping the last free identifier: a loop without its break
FindIdLast(list) ==
    LET free == {k \in 1..MaxId : ~InList(k, list)} IN
    IF free = {} THEN NoId ELSE CHOOSE k \in free : \A j \in free : j <= k

FindId(list) == ScanFrom(1, list)

\* os.path.join(working_dir, "vpcs", "device-{}".format(self._id))
DeviceDir(base, id) == base \o "/vpcs/device-" \o Str(id)

\* os.path.join(self._working_dir, "vpcs.log")
StdoutFile(wd) == wd \o "/vpcs.log"

\* "vpcs{}".format(self._id)
DefaultName(id) == "vpcs" \o Str(id)

\* EthernetAdapter(): one port, number 0, with no NIO
NoNio == [type |-> "none"]
EthernetAdapter == <<NoNio>>

\* adapter.port_exists(port_id): the ports are numbered from 0
PortExists(adapter, port_id) == port_id \in 0..(Len(adapter) - 1)

\* adapter.get_nio(port_id)
GetNio(adapter, port_id) == adapter[port_id + 1]

\* adapter.add_nio(port_id, nio)
AddNio(adapter, port_id, nio) == [adapter EXCEPT ![port_id + 1] = nio]

\* adapter.remove_nio(port_id)
RemoveNio(adapter, port_id) == [adapter EXCEPT ![port_id + 1] = NoNio]

\* self._slots[slot_id] on a Python list: the position (from 1) of the
\* element, a negative index counting from the end, or 0 for IndexError
SlotIndex(slots, slot_id) ==
    IF slot_id >= 0 /\ slot_id < Len(slots) THEN slot_id + 1
    ELSE IF slot_id < 0 /\ slot_id >= -Len(slots) THEN Len(slots) + slot_id + 1
    ELSE 0

\* " ".join(words)
RECURSIVE Join(_)
Join(words) ==
    IF words = <<>> THEN ""
    ELSE IF Len(words) = 1 THEN words[1]
    ELSE words[1] \o " " \o Join(Tail(words))

\* the arguments one port contributes to the command line
NioArgs(nio) ==
    IF nio.type = "udp"
    THEN <<"-s", Str(nio.lport), "-c", Str(nio.rport), "-t", nio.rhost>>
    ELSE IF nio.type = "tap" THEN <<"-e">>
    ELSE <<>>

RECURSIVE AdapterArgs(_)
AdapterArgs(ports) ==
    IF ports = <<>> THEN <<>>
    ELSE NioArgs(Head(ports)) \o AdapterArgs(Tail(ports))

RECURSIVE SlotsArgs(_)
SlotsArgs(slots) ==
    IF slots = <<>> THEN <<>>
    ELSE AdapterArgs(Head(slots)) \o SlotsArgs(Tail(slots))

\* _build_command with "-m" and "-i" appended before the loop over the slots
BuildCommandIdFirst(o) ==
    <<o.path, "-p", StrConsole(o.console)>>
    \o <<"-m", Str(o.id), "-i", Str(1)>>
    \o SlotsArgs(o.slots)
    \o (IF o.script_file # "" THEN <<o.script_file>> ELSE <<>>)

\* vpcsDevice._build_command
BuildCommand(o) ==
    <<o.path, "-p", StrConsole(o.console)>>
    \o SlotsArgs(o.slots)
    \o <<"-m", Str(o.id), "-i", Str(1)>>
    \o (IF o.script_file # "" THEN <<o.script_file>> ELSE <<>>)

\* what the connect of is_running does; conn is whether a TCP connect to
\* (host, console) succeeds.  Without a process handle no connect is made;
\* connecting to a None port raises TypeError.
Probe(o, conn) ==
    IF o.process = NoProcess THEN "skipped"
    ELSE IF o.console = NoConsole THEN "TypeError"
    ELSE IF conn THEN "connected"
    ELSE "refused"

\* is_running that answers True with a handle whatever the connect does
IsRunningHandleOnly(o, conn) == o.process # NoProcess

\* is_running that loses its "return True"
IsRunningNever(o, conn) == FALSE

\* vpcsDevice.is_running: True when the connect succeeds, False when there
\* is no handle or the connect raises anything
IsRunning(o, conn) == Probe(o, conn) = "connected"

\* ------------------------------------------------------------------ state
\* a slot no object has been constructed in
Blank ==
    [st |-> "none", id |-> NoId, name |-> "", path |-> "",
     console |-> NoConsole, working_dir |-> "", command |-> <<>>,
     process |-> NoProcess, vpcs_stdout_file |-> "", host |-> "",
     started |-> FALSE, script_file |-> "", slots |-> <<>>]

\* if name: self._name = name, else: self._name = "vpcs{}".format(self._id)
InitName(name, id) == IF name # NoName THEN name ELSE DefaultName(id)

\* the object __init__ leaves behind when it returns
NewDevice(id, path, working_dir, name) ==
    [st |-> "live", id |-> id, name |-> InitName(name, id), path |-> path,
     console |-> NoConsole, working_dir |-> DeviceDir(working_dir, id),
     command |-> <<>>, process |-> NoProcess, vpcs_stdout_file |-> "",
     host |-> "127.0.0.1", started |-> FALSE, script_file |-> "",
     slots |-> <<EthernetAdapter>>]

\* what command() returned last: the argument vector of _build_command and
\* the line joined from it; nothing before the first call
NoOutput == [argv |-> <<>>, line |-> ""]

\* a thread that is not inside __init__
Idle == [pc |-> "idle", k |-> 0, d |-> 0, name |-> NoName]

\* what the most recent call was and how it ended: result is "ok" or the
\* exception that left it, note is the branch the call took and probe what
\* the connect of its is_running did
Call(op, d, result, note, probe) ==
    [op |-> op, d |-> d, result |-> result, note |-> note, probe |-> probe]

Init ==
    /\ instances = <<>>
    /\ dev = [d \in Dev |-> Blank]
    /\ procs = [d \in Dev |-> 0]
    /\ nspawn = 0
    /\ resets = FALSE
    /\ last = Call("none", 0, "ok", "", "")
    /\ out = NoOutput
    /\ ctor = [t \in Thr |-> Idle]

\* ---------------------------------------------------------------- actions
\* vpcsDevice.__init__(path, working_dir, name=name); mkdir is whether
\* os.makedirs succeeds (or finds the directory): an OSError leaves no object
\* behind
Construct(d, name, mkdir) ==
    /\ dev[d].st = "none"
    /\ \A e \in Dev : e < d => dev[e].st # "none"
    /\ LET id == FindId(instances) IN
         IF id = NoId
         THEN /\ last' = Call("init", 0, "MaxInstances", "", "")
              /\ UNCHANGED <<instances, dev>>
         ELSE /\ instances' = Append(instances, id)
              /\ IF mkdir
                 THEN /\ dev' = [dev EXCEPT ![d] = NewDevice(id, VpcsPath, BaseDir, name)]
                      /\ last' = Call("init", d, "ok", "", "")
                 ELSE /\ dev' = dev
                      /\ last' = Call("init", 0, "WorkingDir", "", "")
    /\ UNCHANGED <<procs, nspawn, resets>>
    /\ UNCHANGED <<out, ctor>>

\* vpcsDevice.reset (classmethod)
Reset ==
    /\ instances' = <<>>
    /\ resets' = TRUE
    /\ last' = Call("reset", 0, "ok", "", "")
    /\ UNCHANGED <<dev, procs, nspawn>>
    /\ UNCHANGED <<out, ctor>>

\* the name setter
SetName(d, new_name) ==
    /\ dev[d].st # "none"
    /\ dev' = [dev EXCEPT ![d].name = new_name]
    /\ last' = Call("name", d, "ok", "", "")
    /\ UNCHANGED <<instances, procs, nspawn, resets, out, ctor>>

\* the path setter
SetPath(d, path) ==
    /\ dev[d].st # "none"
    /\ dev' = [dev EXCEPT ![d].path = path]
    /\ last' = Call("path", d, "ok", "", "")
    /\ UNCHANGED <<instances, procs, nspawn, resets, out, ctor>>

\* the working_dir setter called on its own; mkdir as in Construct: an
\* OSError of os.makedirs leaves the attribute as it was
SetWorkingDir(d, working_dir, mkdir) ==
    /\ dev[d].st # "none"
    /\ IF mkdir
       THEN /\ dev' = [dev EXCEPT ![d].working_dir = DeviceDir(working_dir, dev[d].id)]
            /\ last' = Call("working_dir", d, "ok", "", "")
       ELSE /\ dev' = dev
            /\ last' = Call("working_dir", d, "WorkingDir", "", "")
    /\ UNCHANGED <<instances, procs, nspawn, resets, out, ctor>>

\* the console setter
SetConsole(d, c) ==
    /\ dev[d].st # "none"
    /\ dev' = [dev EXCEPT ![d].console = c]
    /\ last' = Call("console", d, "ok", "", "")
    /\ UNCHANGED <<instances, procs, nspawn, resets>>
    /\ UNCHANGED <<out, ctor>>

\* stop() that clears the handle and forgets the started flag
StopResultKeepsFlag(o, conn, sig) ==
    IF IsRunning(o, conn) /\ sig = "OSError"
    THEN [obj |-> o, result |-> "OSError", note |-> "signal failed"]
    ELSE [obj |-> [o EXCEPT !.process = NoProcess],
          result |-> "ok",
          note |-> IF IsRunning(o, conn) THEN "signalled" ELSE "idle"]

\* stop() with the two clearing assignments indented under the "if"
StopResultClearInsideIf(o, conn, sig) ==
    IF ~IsRunning(o, conn)
    THEN [obj |-> o, result |-> "ok", note |-> "idle"]
    ELSE IF sig = "OSError"
    THEN [obj |-> o, result |-> "OSError", note |-> "signal failed"]
    ELSE [obj |-> [o EXCEPT !.process = NoProcess, !.started = FALSE],
          result |-> "ok", note |-> "signalled"]

\* the outcome of vpcsDevice.stop on object o: the object afterwards, the
\* exception that leaves it, if any, and whether the quit was sent.  Only
\* TypeError is caught around connect/send: an OSError leaves stop() before
\* the handle and the flag are cleared.
StopResult(o, conn, sig) ==
    IF IsRunning(o, conn) /\ sig = "OSError"
    THEN [obj |-> o, result |-> "OSError", note |-> "signal failed"]
    ELSE [obj |-> [o EXCEPT !.process = NoProcess, !.started = FALSE],
          result |-> "ok",
          note |-> IF IsRunning(o, conn) THEN "signalled" ELSE "idle"]

\* vpcsDevice.stop
Stop(d, conn, sig) ==
    /\ dev[d].st # "none"
    /\ LET r == StopResult(dev[d], conn, sig) IN
         /\ dev' = [dev EXCEPT ![d] = r.obj]
         /\ last' = Call("stop", d, r.result, r.note, Probe(dev[d], conn))
    /\ UNCHANGED <<instances, procs, nspawn, resets>>
    /\ UNCHANGED <<out, ctor>>

\* start() setting self._started before the process is spawned
SpawnFailedStarted(o, cmd, log) ==
    [o EXCEPT !.command = cmd, !.vpcs_stdout_file = log, !.started = TRUE]

\* the object after a start() whose open() or subprocess.Popen() raised
\* OSError: the command and the log path were assigned before the try
SpawnFailed(o, cmd, log) ==
    [o EXCEPT !.command = cmd, !.vpcs_stdout_file = log]

\* vpcsDevice.start; fs is what the file system says of the path and spawn
\* whether open() and subprocess.Popen() succeed
Start(d, conn, fs, spawn) ==
    /\ dev[d].st # "none"
    /\ LET o == dev[d] IN
         IF IsRunning(o, conn)
         THEN /\ last' = Call("start", d, "ok", "running", Probe(o, conn))
              /\ UNCHANGED <<dev, procs, nspawn>>
         ELSE IF fs = "missing"
         THEN /\ last' = Call("start", d, "NotAccessible", "", Probe(o, conn))
              /\ UNCHANGED <<dev, procs, nspawn>>
         ELSE IF fs = "noexec"
         THEN /\ last' = Call("start", d, "NotExecutable", "", Probe(o, conn))
              /\ UNCHANGED <<dev, procs, nspawn>>
         ELSE LET cmd == BuildCommand(o)
                  log == StdoutFile(o.working_dir)
              IN IF spawn
                 THEN /\ nspawn < MaxSpawn
                      /\ nspawn' = nspawn + 1
                      /\ procs' = [procs EXCEPT ![d] = @ + 1]
                      /\ dev' = [dev EXCEPT ![d] =
                                  [o EXCEPT !.command = cmd,
                                            !.vpcs_stdout_file = log,
                                            !.process = [pid |-> nspawn + 1, args |-> cmd],
                                            !.started = TRUE]]
                      /\ last' = Call("start", d, "ok", "spawned", Probe(o, conn))
                 ELSE /\ dev' = [dev EXCEPT ![d] = SpawnFailed(o, cmd, log)]
                      /\ last' = Call("start", d, "CouldNotStart", "", Probe(o, conn))
                      /\ UNCHANGED <<procs, nspawn>>
    /\ UNCHANGED <<instances, resets>>
    /\ UNCHANGED <<out, ctor>>

\* vpcsDevice.delete: stop(), then self._instances.remove(self._id), which
\* raises ValueError when the identifier is not in the list
Delete(d, conn, sig) ==
    /\ dev[d].st # "none"
    /\ LET r == StopResult(dev[d], conn, sig) IN
         IF r.result # "ok"
         THEN /\ dev' = [dev EXCEPT ![d] = r.obj]
              /\ last' = Call("delete", d, r.result, r.note, Probe(dev[d], conn))
              /\ UNCHANGED instances
         ELSE IF ~InList(dev[d].id, instances)
         THEN /\ dev' = [dev EXCEPT ![d] = r.obj]
              /\ last' = Call("delete", d, "ValueError", r.note, Probe(dev[d], conn))
              /\ UNCHANGED instances
         ELSE /\ instances' = ListRemove(instances, dev[d].id)
              /\ dev' = [dev EXCEPT ![d] = [r.obj EXCEPT !.st = "deleted"]]
              /\ last' = Call("delete", d, "ok", r.note, Probe(dev[d], conn))
    /\ UNCHANGED <<procs, nspawn, resets>>
    /\ UNCHANGED <<out, ctor>>

\* one of the vpcs processes the device spawned exits
ProcExit(d) ==
    /\ procs[d] > 0
    /\ procs' = [procs EXCEPT ![d] = @ - 1]
    /\ last' = Call("exit", d, "ok", "", "")
    /\ UNCHANGED <<instances, dev, nspawn, resets>>
    /\ UNCHANGED <<out, ctor>>

\* the call of a binding method: as Call, with the slot and port passed
BindCall(op, d, result, slot_id, port_id) ==
    [op |-> op, d |-> d, result |-> result, note |-> "", probe |-> "",
     slot |-> slot_id, port |-> port_id]

\* the script_file setter
SetScriptFile(d, f) ==
    /\ dev[d].st # "none"
    /\ dev' = [dev EXCEPT ![d].script_file = f]
    /\ last' = Call("script_file", d, "ok", "", "")
    /\ UNCHANGED <<instances, procs, nspawn, resets, out, ctor>>

\* vpcsDevice.slot_add_nio_binding
SlotAddNioBinding(d, slot_id, port_id, nio) ==
    /\ dev[d].st # "none"
    /\ LET i == SlotIndex(dev[d].slots, slot_id) IN
         IF i = 0
         THEN /\ last' = BindCall("slot_add_nio_binding", d, "SlotError", slot_id, port_id)
              /\ UNCHANGED dev
         ELSE IF ~PortExists(dev[d].slots[i], port_id)
         THEN /\ last' = BindCall("slot_add_nio_binding", d, "PortError", slot_id, port_id)
              /\ UNCHANGED dev
         ELSE /\ dev' = [dev EXCEPT ![d].slots[i] = AddNio(@, port_id, nio)]
              /\ last' = BindCall("slot_add_nio_binding", d, "ok", slot_id, port_id)
    /\ UNCHANGED <<instances, procs, nspawn, resets, out, ctor>>

\* vpcsDevice.slot_remove_nio_binding
SlotRemoveNioBinding(d, slot_id, port_id) ==
    /\ dev[d].st # "none"
    /\ LET i == SlotIndex(dev[d].slots, slot_id) IN
         IF i = 0
         THEN /\ last' = BindCall("slot_remove_nio_binding", d, "SlotError", slot_id, port_id)
              /\ UNCHANGED dev
         ELSE IF ~PortExists(dev[d].slots[i], port_id)
         THEN /\ last' = BindCall("slot_remove_nio_binding", d, "PortError", slot_id, port_id)
              /\ UNCHANGED dev
         ELSE /\ dev' = [dev EXCEPT ![d].slots[i] = RemoveNio(@, port_id)]
              /\ last' = BindCall("slot_remove_nio_binding", d, "ok", slot_id, port_id)
    /\ UNCHANGED <<instances, procs, nspawn, resets, out, ctor>>

\* command() with its result stored in the object: a builder that keeps
\* what it built, as start() does
CommandStoring(d) ==
    /\ dev[d].st # "none"
    /\ LET argv == BuildCommand(dev[d]) IN
         /\ out' = [argv |-> argv, line |-> Join(argv)]
         /\ dev' = [dev EXCEPT ![d].command = argv]
    /\ last' = Call("command", d, "ok", "", "")
    /\ UNCHANGED <<instances, procs, nspawn, resets, ctor>>

\* vpcsDevice.command: " ".join(self._build_command())
Command(d) ==
    /\ dev[d].st # "none"
    /\ LET argv == BuildCommand(dev[d]) IN
         out' = [argv |-> argv, line |-> Join(argv)]
    /\ last' = Call("command", d, "ok", "", "")
    /\ UNCHANGED <<instances, dev, procs, nspawn, resets, ctor>>

\* a call of vpcsDevice.is_running by the caller; conn is whether something
\* accepts a TCP connect on (host, console) at that moment
IsRunningCall(d, conn) ==
    /\ dev[d].st # "none"
    /\ last' = Call("is_running", d,
                    IF IsRunning(dev[d], conn) THEN "True" ELSE "False",
                    IF conn /\ dev[d].console # NoConsole THEN "listener" ELSE "no listener",
                    Probe(dev[d], conn))
    /\ UNCHANGED <<instances, dev, procs, nspawn, resets, out, ctor>>

\* __init__ run by several threads, one step per access to the shared list.
\* A thread enters __init__(path, working_dir, name=name) for a new object
\* d: self._id = 0 and the loop starts at identifier 1.
CtorBegin(t, d, name) ==
    /\ ctor[t].pc = "idle"
    /\ dev[d].st = "none"
    /\ \A u \in Thr : ctor[u].d # d
    /\ \A e \in Dev : e < d => (dev[e].st # "none" \/ \E u \in Thr : ctor[u].d = e)
    /\ ctor' = [ctor EXCEPT ![t] = [pc |-> "test", k |-> 1, d |-> d, name |-> name]]
    /\ last' = Call("enter init", d, "ok", "", "")
    /\ UNCHANGED <<instances, dev, procs, nspawn, resets, out>>

\* one "if identifier not in self._instances": the identifier is taken
\* (self._id = identifier), or the loop goes on, or it ends with self._id = 0
\* and the maximum-instances error
CtorTest(t) ==
    /\ ctor[t].pc = "test"
    /\ LET k == ctor[t].k IN
         IF ~InList(k, instances)
         THEN /\ ctor' = [ctor EXCEPT ![t].pc = "append"]
              /\ last' = Call("test", ctor[t].d, "ok", "free", "")
         ELSE IF k < MaxId
         THEN /\ ctor' = [ctor EXCEPT ![t].k = k + 1]
              /\ last' = Call("test", ctor[t].d, "ok", "taken", "")
         ELSE /\ ctor' = [ctor EXCEPT ![t] = Idle]
              /\ last' = Call("init", 0, "MaxInstances", "", "")
    /\ UNCHANGED <<instances, dev, procs, nspawn, resets, out>>

\* self._instances.append(self._id): the identifier is in the list while
\* the constructor is still running
CtorAppend(t) ==
    /\ ctor[t].pc = "append"
    /\ instances' = Append(instances, ctor[t].k)
    /\ ctor' = [ctor EXCEPT ![t].pc = "finish"]
    /\ last' = Call("append", ctor[t].d, "ok", "", "")
    /\ UNCHANGED <<dev, procs, nspawn, resets, out>>

\* the rest of __init__ up to its return, which touches the new object
\* only: the object is returned to the caller, or the working_dir setter
\* raises; mkdir as in Construct
CtorFinish(t, mkdir) ==
    /\ ctor[t].pc = "finish"
    /\ IF mkdir
       THEN /\ dev' = [dev EXCEPT ![ctor[t].d] =
                        NewDevice(ctor[t].k, VpcsPath, BaseDir, ctor[t].name)]
            /\ last' = Call("init", ctor[t].d, "ok", "", "")
       ELSE /\ dev' = dev
            /\ last' = Call("init", 0, "WorkingDir", "", "")
    /\ ctor' = [ctor EXCEPT ![t] = Idle]
    /\ UNCHANGED <<instances, procs, nspawn, resets, out>>

\* the life cycle of a few devices: construction, configuration, start,
\* stop, delete and the exit of spawned processes
Next ==
    \/ \E d \in LifeDev : Construct(d, NoName, TRUE)
    \/ \E d \in LifeDev, c \in Consoles : SetConsole(d, c)
    \/ \E d \in LifeDev, conn \in BOOLEAN, sig \in SignalOutcomes : Stop(d, conn, sig)
    \/ \E d \in LifeDev, conn \in BOOLEAN, fs \in FileStates, spawn \in BOOLEAN :
          Start(d, conn, fs, spawn)
    \/ \E d \in LifeDev, conn \in BOOLEAN, sig \in SignalOutcomes : Delete(d, conn, sig)
    \/ \E d \in LifeDev : ProcExit(d)

Spec == Init /\ [][Next]_vars

\* the identifier allocator alone: devices are constructed and deleted and
\* the list is reset, no device is ever started
NextAlloc ==
    \/ \E d \in Dev, mkdir \in BOOLEAN : Construct(d, NoName, mkdir)
    \/ Reset
    \/ \E d \in Dev, conn \in BOOLEAN, sig \in SignalOutcomes : Delete(d, conn, sig)

SpecAlloc == Init /\ [][NextAlloc]_vars

\* the configuration of a few devices: the setters, the bindings and the
\* command line built from them
NextConf ==
    \/ \E d \in LifeDev : Construct(d, NoName, TRUE)
    \/ \E d \in LifeDev, c \in Consoles : SetConsole(d, c)
    \/ \E d \in LifeDev, f \in ScriptFiles : SetScriptFile(d, f)
    \/ \E d \in LifeDev, slot_id \in SlotIds, port_id \in PortIds, nio \in Nios :
          SlotAddNioBinding(d, slot_id, port_id, nio)
    \/ \E d \in LifeDev, slot_id \in SlotIds, port_id \in PortIds :
          SlotRemoveNioBinding(d, slot_id, port_id)
    \/ \E d \in LifeDev : Command(d)

SpecConf == Init /\ [][NextConf]_vars

\* the liveness probe: a few devices are started and stopped and the caller
\* asks is_running in between
NextProbe ==
    \/ \E d \in LifeDev : Construct(d, NoName, TRUE)
    \/ \E d \in LifeDev, c \in Consoles : SetConsole(d, c)
    \/ \E d \in LifeDev, conn \in BOOLEAN, fs \in FileStates, spawn \in BOOLEAN :
          Start(d, conn, fs, spawn)
    \/ \E d \in LifeDev, conn \in BOOLEAN, sig \in SignalOutcomes : Stop(d, conn, sig)
    \/ \E d \in LifeDev, conn \in BOOLEAN : IsRunningCall(d, conn)

SpecProbe == Init /\ [][NextProbe]_vars

\* the attributes of a few devices: the name given at construction, the
\* name, path and working_dir setters, and the start and the command line
\* that use them
NextAttr ==
    \/ \E d \in LifeDev, name \in Names, mkdir \in BOOLEAN : Construct(d, name, mkdir)
    \/ \E d \in LifeDev, name \in Names : SetName(d, name)
    \/ \E d \in LifeDev, path \in Paths : SetPath(d, path)
    \/ \E d \in LifeDev, wd \in WorkingDirs, mkdir \in BOOLEAN : SetWorkingDir(d, wd, mkdir)
    \/ \E d \in LifeDev, conn \in BOOLEAN, fs \in FileStates, spawn \in BOOLEAN :
          Start(d, conn, fs, spawn)
    \/ \E d \in LifeDev : Command(d)

SpecAttr == Init /\ [][NextAttr]_vars

\* the command line of a few devices: the path, console and script_file
\* setters and the bindings of port 0 of the adapter, then command()
NextCmd ==
    \/ \E d \in LifeDev : Construct(d, NoName, TRUE)
    \/ \E d \in LifeDev, path \in Paths : SetPath(d, path)
    \/ \E d \in LifeDev, c \in Consoles : SetConsole(d, c)
    \/ \E d \in LifeDev, f \in ScriptFiles : SetScriptFile(d, f)
    \/ \E d \in LifeDev, nio \in Nios : SlotAddNioBinding(d, 0, 0, nio)
    \/ \E d \in LifeDev : SlotRemoveNioBinding(d, 0, 0)
    \/ \E d \in LifeDev : Command(d)

SpecCmd == Init /\ [][NextCmd]_vars

\* starts and stops of a few devices whose console and working directory
\* the caller changes in between
NextStart ==
    \/ \E d \in LifeDev : Construct(d, NoName, TRUE)
    \/ \E d \in LifeDev, c \in Consoles : SetConsole(d, c)
    \/ \E d \in LifeDev, wd \in WorkingDirs, mkdir \in BOOLEAN : SetWorkingDir(d, wd, mkdir)
    \/ \E d \in LifeDev, conn \in BOOLEAN, fs \in FileStates, spawn \in BOOLEAN :
          Start(d, conn, fs, spawn)
    \/ \E d \in LifeDev, conn \in BOOLEAN, sig \in SignalOutcomes : Stop(d, conn, sig)

SpecStart == Init /\ [][NextStart]_vars

\* constructions run by concurrent threads
NextConc ==
    \/ \E t \in Thr, d \in Dev, name \in Names : CtorBegin(t, d, name)
    \/ \E t \in Thr : CtorTest(t)
    \/ \E t \in Thr : CtorAppend(t)
    \/ \E t \in Thr, mkdir \in BOOLEAN : CtorFinish(t, mkdir)

SpecConc == Init /\ [][NextConc]_vars

\* ----------------------------------------------------------------- claims
\* a device that was constructed and on which delete() has not returned
Live(d) == dev[d].st = "live"

\* every identifier of the pool is in the list
Full(list) == Allocated(list) = Ids

\* C1: as long as only constructions and delete() calls were made (no
\* reset), any two distinct live devices have distinct identifiers and every
\* live device's identifier is in the pool 1..MaxId.
C1_LiveIdentitiesDistinct ==
    ~resets =>
        /\ \A d \in Dev : Live(d) => dev[d].id \in Ids
        /\ \A d, e \in Dev :
              (Live(d) /\ Live(e) /\ d # e) => dev[d].id # dev[e].id

\* C2: a device never has more than one live process among those it spawned.
C2_AtMostOneLiveProcess == \A d \in Dev : procs[d] <= 1

\* C3: a start() on a device that has a process handle and whose liveness
\* connect succeeds spawns nothing and leaves the handle, the started flag,
\* the recorded command and the log-file path as they were.
C3_StartWhileRunningIsNoop ==
    [][\A d \in Dev :
          (/\ last'.op = "start"
           /\ last'.d = d
           /\ dev[d].process # NoProcess
           /\ last'.probe = "connected")
          => /\ nspawn' = nspawn
             /\ procs' = procs
             /\ dev'[d].process = dev[d].process
             /\ dev'[d].started = dev[d].started
             /\ dev'[d].command = dev[d].command
             /\ dev'[d].vpcs_stdout_file = dev[d].vpcs_stdout_file]_vars

\* a start() returned on a running device that an earlier start() spawned
\* and whose working directory was changed since
C3_Witness ==
    /\ last.op = "start"
    /\ last.result = "ok"
    /\ last.probe = "connected"
    /\ last.note = "running"
    /\ dev[last.d].process # NoProcess
    /\ dev[last.d].started
    /\ dev[last.d].vpcs_stdout_file # StdoutFile(dev[last.d].working_dir)

\* C4: after every stop(), whatever the probe said and however the quit
\* signal went, the process handle is absent and the started flag is false.
C4_StopClearsHandle ==
    last.op = "stop" =>
        /\ dev[last.d].process = NoProcess
        /\ ~dev[last.d].started

\* C5: a stop() whose probe connected and whose quit signal then failed
\* returns normally.
C5_SignalFailureIsSwallowed ==
    (/\ last.op = "stop"
     /\ last.probe = "connected"
     /\ last.note = "signal failed") => last.result = "ok"

\* C6: a delete() on a device whose identifier is not in the list returns
\* normally and leaves the list as it was.
C6_DeleteAbsentIsIdempotent ==
    [][\A d \in Dev :
          (/\ last'.op = "delete"
           /\ last'.d = d
           /\ ~InList(dev[d].id, instances))
          => /\ last'.result = "ok"
             /\ instances' = instances]_vars

\* C7: a start() on a device on which delete() has returned spawns nothing.
C7_NoSpawnAfterDelete ==
    (last.op = "start" /\ dev[last.d].st = "deleted") => last.note # "spawned"

\* C8 as stated: a construction fails with the maximum-instances error
\* exactly when the pool is full, succeeds whenever it is not, and leaves
\* the list unchanged when it fails so.
C8_ExhaustionAsStated ==
    [][last'.op = "init" =>
          /\ (last'.result = "MaxInstances") <=> Full(instances)
          /\ ~Full(instances) => last'.result = "ok"
          /\ last'.result = "MaxInstances" => instances' = instances]_vars

\* C8 amended: a construction fails with the maximum-instances error exactly
\* when the pool is full and then leaves the list unchanged; when the pool
\* is not full it succeeds or fails with the working-directory error.
C8_Exhaustion ==
    [][last'.op = "init" =>
          /\ (last'.result = "MaxInstances") <=> Full(instances)
          /\ ~Full(instances) => last'.result \in {"ok", "WorkingDir"}
          /\ last'.result = "MaxInstances" => instances' = instances]_vars

\* a construction was refused with the whole pool allocated
C8_Witness ==
    /\ last.op = "init"
    /\ last.result = "MaxInstances"
    /\ Allocated(instances) = Ids

\* C9: a successful construction takes the smallest identifier of the pool
\* that is not in the list and adds that identifier, and nothing else, to
\* the list.
C9_SmallestFreeIdentifier ==
    [][\A d \in Dev :
          (last'.op = "init" /\ last'.result = "ok" /\ last'.d = d)
          => LET free == Ids \ Allocated(instances)
                 id == dev'[d].id
             IN /\ id \in free
                /\ \A j \in free : id <= j
                /\ instances' = Append(instances, id)
                /\ Allocated(instances') = Allocated(instances) \cup {id}]_vars

\* a construction took a freed identifier below one that is still allocated
C9_Witness ==
    /\ last.op = "init"
    /\ last.result = "ok"
    /\ \E j \in Allocated(instances) : dev[last.d].id < j

\* C10: when delete() returns on a live device with identifier k, the started
\* flag is false, the handle is absent, k is not in the list and the scan of
\* the next construction stops at k at the latest.
C10_DeleteStopsAndReleases ==
    [][\A d \in Dev :
          (/\ last'.op = "delete"
           /\ last'.d = d
           /\ last'.result = "ok"
           /\ Live(d))
          => /\ ~dev'[d].started
             /\ dev'[d].process = NoProcess
             /\ ~InList(dev[d].id, instances')
             /\ FindId(instances') \in 1..dev[d].id]_vars

\* delete() returned on a device that was running: the quit signal was sent
C10_Witness ==
    /\ last.op = "delete"
    /\ last.result = "ok"
    /\ last.note = "signalled"
    /\ dev[last.d].st = "deleted"
    /\ ~InList(dev[last.d].id, instances)

\* C11: slot_add_nio_binding and slot_remove_nio_binding raise the slot error
\* for every slot number outside 0..(number of adapters - 1), negative ones
\* included, raise the port error for a valid slot whose port does not
\* exist, and leave all bindings as they were in both cases.
C11_SlotAndPortErrors ==
    [][\A d \in Dev :
          (/\ last'.op \in {"slot_add_nio_binding", "slot_remove_nio_binding"}
           /\ last'.d = d)
          => LET n == Len(dev[d].slots)
                 valid == last'.slot \in 0..(n - 1)
             IN /\ ~valid => (last'.result = "SlotError" /\ dev' = dev)
                /\ (valid /\ ~PortExists(dev[d].slots[last'.slot + 1], last'.port))
                      => (last'.result = "PortError" /\ dev' = dev)]_vars

\* C12: the argument vector command() builds is the path, "-p" and the
\* console, then "-s" lport "-c" rport "-t" rhost for a UDP binding or "-e"
\* for a TAP binding (nothing for an unbound port), then "-m" and the
\* identifier, then "-i" "1", then the script file when one is set.  A device
\* has one adapter with one port.
C12_CommandContent ==
    last.op = "command" =>
        LET o == dev[last.d]
            a == out.argv
            nio == o.slots[1][1]
            nb == IF nio.type = "udp" THEN 6 ELSE IF nio.type = "tap" THEN 1 ELSE 0
            ns == IF o.script_file = "" THEN 0 ELSE 1
        IN /\ Len(o.slots) = 1 /\ Len(o.slots[1]) = 1
           /\ Len(a) = 3 + nb + 4 + ns
           /\ a[1] = o.path /\ a[2] = "-p"
           /\ a[3] = (IF o.console = NoConsole THEN "None" ELSE ToString(o.console))
           /\ nio.type = "udp" =>
                 /\ a[4] = "-s" /\ a[5] = ToString(nio.lport)
                 /\ a[6] = "-c" /\ a[7] = ToString(nio.rport)
                 /\ a[8] = "-t" /\ a[9] = nio.rhost
           /\ nio.type = "tap" => a[4] = "-e"
           /\ a[3 + nb + 1] = "-m" /\ a[3 + nb + 2] = ToString(o.id)
           /\ a[3 + nb + 3] = "-i" /\ a[3 + nb + 4] = "1"
           /\ ns = 1 => a[Len(a)] = o.script_file

\* command() returned for a path set with the setter, console 2000, one
\* UDP binding and a script file
C12_Witness ==
    /\ last.op = "command"
    /\ out.argv = <<"/usr/local/bin/other-vpcs", "-p", "2000", "-s", "20001", "-c", "30001",
                    "-t", "127.0.0.1", "-m", "1", "-i", "1", "start.vpc">>

\* C15: command() changes nothing of the device (identifier, console, script
\* file, bindings, started flag, handle) nor of the allocation list, and a
\* command() that follows a command() on the same device returns the same
\* argument vector.
C15_CommandIsPure ==
    [][last'.op = "command" =>
          /\ dev' = dev
          /\ instances' = instances
          /\ procs' = procs /\ nspawn' = nspawn
          /\ (last.op = "command" /\ last.d = last'.d) => out' = out]_vars

\* command() returned the vector of a device with a binding
C15_Witness ==
    /\ last.op = "command"
    /\ dev[last.d].slots[1][1] # NoNio
    /\ Len(out.argv) > 7
    /\ out.line # ""

\* C13 as stated: is_running() answers True exactly when something accepts
\* a TCP connect on (host, console), and False exactly when it does not.
C13_RunningIffConnectSucceeds ==
    last.op = "is_running" =>
        (last.result = "True" <=> last.note = "listener")

\* C13 amended: is_running() answers True exactly when a process handle is
\* recorded and something accepts a TCP connect on (host, console); without
\* a handle it answers False and makes no connect.
C13_RunningIffHandleAndConnect ==
    last.op = "is_running" =>
        /\ last.result = "True" <=>
              (dev[last.d].process # NoProcess /\ last.note = "listener")
        /\ dev[last.d].process = NoProcess => last.probe = "skipped"

\* is_running() answered True for a device with a handle
C13_Witness ==
    /\ last.op = "is_running"
    /\ last.result = "True"
    /\ last.note = "listener"
    /\ dev[last.d].process # NoProcess

\* C14: a start() that raises (path not accessible, not executable, spawn
\* failed) leaves the started flag and the handle as they were; the flag
\* and the handle change only in a start() that spawned, which sets the
\* flag and records the new handle.
C14_FailedStartKeepsState ==
    [][\A d \in Dev :
          (last'.op = "start" /\ last'.d = d)
          => /\ last'.result \in {"ok", "NotAccessible", "NotExecutable", "CouldNotStart"}
             /\ last'.result # "ok" =>
                   /\ dev'[d].started = dev[d].started
                   /\ dev'[d].process = dev[d].process
                   /\ nspawn' = nspawn
             /\ (dev'[d].started # dev[d].started \/ dev'[d].process # dev[d].process)
                   => (last'.result = "ok" /\ nspawn' = nspawn + 1)
             /\ nspawn' = nspawn + 1 =>
                   /\ dev'[d].started
                   /\ dev'[d].process # NoProcess
                   /\ dev'[d].process # dev[d].process]_vars

\* a start() failed to spawn on a device that holds a handle from before
\* and whose working directory was changed since
C14_Witness ==
    /\ last.op = "start"
    /\ last.result = "CouldNotStart"
    /\ dev[last.d].process # NoProcess
    /\ dev[last.d].started
    /\ dev[last.d].working_dir = DeviceDir("/elsewhere", dev[last.d].id)
    /\ dev[last.d].vpcs_stdout_file = StdoutFile(dev[last.d].working_dir)

\* C16: whenever a handle is recorded, the console port is_running() and
\* stop() connect to is the port passed with "-p" to the process of that
\* handle.
C16_ConsoleMatchesSpawnedPort ==
    \A d \in Dev :
        dev[d].process # NoProcess =>
            /\ dev[d].process.args[2] = "-p"
            /\ dev[d].process.args[3] = StrConsole(dev[d].console)

\* C18: the started flag of a device is true exactly when a handle is
\* recorded.
C18_StartedIffHandle ==
    \A d \in Dev :
        dev[d].st # "none" => (dev[d].started <=> dev[d].process # NoProcess)

\* a stop() that raised left a started device with its handle
C18_Witness ==
    /\ last.op = "stop"
    /\ last.result = "OSError"
    /\ dev[last.d].started
    /\ dev[last.d].process # NoProcess

\* C17: with constructions interleaved between the membership test and the
\* append, no identifier is in the list twice and no two live devices have
\* the same identifier.
C17_NoDoubleAllocation ==
    /\ \A i, j \in 1..Len(instances) : i # j => instances[i] # instances[j]
    /\ \A d, e \in Dev :
          (Live(d) /\ Live(e) /\ d # e) => dev[d].id # dev[e].id

\* C19: a construction that fails, whether the pool is exhausted or the
\* working directory cannot be created, leaves the allocation list as it was
\* before the construction began.
C19_FailedConstructionKeepsList ==
    [][(last'.op = "init" /\ last'.result # "ok") => instances' = instances]_vars

\* C20: under any sequence of constructions, delete() calls and reset()
\* calls, the identifier of every live device is in the allocation list.
C20_LiveIdentityAllocated ==
    \A d \in Dev : Live(d) => InList(dev[d].id, instances)

====
